---- MODULE Spec2Model ----
(***************************************************************************)
(* Model of maubot/instance.py: the PluginInstance registry (cache, get,   *)
(* all, delete), the dependency binder (load) and the lifecycle controller *)
(* (start, stop), whose coroutines interleave at their await points.       *)
(***************************************************************************)
EXTENDS Integers, Sequences, FiniteSets, TLC

\* ---------------------------------------------------------------- bounds
NumRows == 2
MaxObjs == 3
MaxTasks == 3

Rows == 1..NumRows
Ids == 1..(NumRows + 1)
Objs == 1..MaxObjs
Tasks == 1..MaxTasks

\* ------------------------------------------------------------- constants
NoObj == 0
NoRow == 0
PluginUnset == -1
PluginNone == 0
ConfigNone == 0

Types == {"echo", "ghost"}
LoaderIds == {"echo"}
Users == {"@bot", "@gone"}
ClientUsers == {"@bot"}

VARIABLES
  db,          \* the DBPlugin records: id, type, enabled, primary_user, persisted
  cache,       \* PluginInstance.cache: id -> object, NoObj where there is no key
  inst,        \* the attributes of each PluginInstance object
  nextObj,     \* the next object PluginInstance(...) allocates
  loaderRefs,  \* PluginLoader.references, per loader
  clientRefs,  \* Client.references, per client
  tasks,       \* the start()/stop() coroutines: where each is suspended, on whom
  nextTask,    \* the next coroutine a start()/stop() call creates
  last,        \* what the step just taken returned, raised and logged
  sinceStart   \* per object: a start() succeeded and no stop() was called since

vars == <<db, cache, inst, nextObj, loaderRefs, clientRefs, tasks, nextTask,
          last, sinceStart>>

\* ------------------------------------------------------------ properties
id(o) == db[inst[o].db_instance].id

type(o) == db[inst[o].db_instance].type

enabled(o) == db[inst[o].db_instance].enabled

primary_user(o) == db[inst[o].db_instance].primary_user

Created == 1..(nextObj - 1)

\* the attributes of an object before __init__ has run
Blank ==
  [db_instance |-> NoRow, log |-> 0, config |-> ConfigNone, running |-> FALSE,
   plugin |-> PluginUnset, loader |-> "unset", client |-> "unset"]

IdleTask == [pc |-> "idle", obj |-> NoObj]

DoneTask == [pc |-> "done", obj |-> NoObj]

\* what the step just taken gave its caller: the instance whose method ran
\* (NoObj for the class methods), how control came back ("return", "raise" or
\* "await"), the lines written to the instance's log, the objects returned
Outcome(o, res, log, ret) == [self |-> o, res |-> res, log |-> log, ret |-> ret]

\* -------------------------------------------------------------- registry
\* DBPlugin.query.get(instance_id)
QueryGet(d, key) ==
  IF \E r \in Rows : d[r].persisted /\ d[r].id = key
  THEN CHOOSE r \in Rows : d[r].persisted /\ d[r].id = key
  ELSE NoRow

\* a constructor that forgets `self.cache[self.id] = self`
InitNoRegister(st, r) ==
  [st EXCEPT !.inst[st.nextObj] =
               [Blank EXCEPT !.db_instance = r, !.log = st.db[r].id],
             !.nextObj = st.nextObj + 1,
             !.ret = Append(st.ret, st.nextObj)]

\* PluginInstance.__init__
PluginInstanceInit(st, r) ==
  [st EXCEPT !.inst[st.nextObj] =
               [Blank EXCEPT !.db_instance = r, !.log = st.db[r].id],
             !.cache[st.db[r].id] = st.nextObj,
             !.nextObj = st.nextObj + 1,
             !.ret = Append(st.ret, st.nextObj)]

\* PluginInstance.get(instance_id, db_instance)
get(st, key, given) ==
  IF st.cache[key] # NoObj
  THEN [st EXCEPT !.ret = Append(st.ret, st.cache[key])]
  ELSE LET r == IF given # NoRow THEN given ELSE QueryGet(st.db, key)
       IN IF r = NoRow THEN st ELSE PluginInstanceInit(st, r)

\* PluginInstance.all(): one get per row of DBPlugin.query.all(), in order
RECURSIVE allFrom(_, _)
allFrom(st, r) ==
  IF r > NumRows THEN st
  ELSE IF st.db[r].persisted
       THEN allFrom(get(st, st.db[r].id, r), r + 1)
       ELSE allFrom(st, r + 1)

Reg == [db |-> db, cache |-> cache, inst |-> inst, nextObj |-> nextObj,
        ret |-> <<>>]

Get(key) ==
  LET st == get(Reg, key, NoRow)
  IN /\ st.nextObj <= MaxObjs + 1
     /\ cache' = st.cache
     /\ inst' = st.inst
     /\ nextObj' = st.nextObj
     /\ last' = Outcome(NoObj, "return", <<>>, st.ret)
     /\ UNCHANGED <<db, loaderRefs, clientRefs, tasks, nextTask, sinceStart>>

All ==
  LET st == allFrom(Reg, 1)
  IN /\ st.nextObj <= MaxObjs + 1
     /\ cache' = st.cache
     /\ inst' = st.inst
     /\ nextObj' = st.nextObj
     /\ last' = Outcome(NoObj, "return", <<>>, st.ret)
     /\ UNCHANGED <<db, loaderRefs, clientRefs, tasks, nextTask, sinceStart>>

\* ------------------------------------------------------ dependency binder
\* a load() that forgets `self.enabled = False` when Client.get returns None
LoadKeepsEnabled(o) ==
  /\ o \in Created
  /\ LET r == inst[o].db_instance
     IN IF type(o) \notin LoaderIds
        THEN /\ db' = [db EXCEPT ![r].enabled = FALSE]
             /\ last' = Outcome(o, "return", <<"error: no loader">>, <<>>)
             /\ UNCHANGED <<inst, loaderRefs, clientRefs>>
        ELSE IF primary_user(o) \notin ClientUsers
        THEN /\ inst' = [inst EXCEPT ![o].loader = type(o), ![o].client = "none"]
             /\ last' = Outcome(o, "return", <<"error: no client">>, <<>>)
             /\ UNCHANGED <<db, loaderRefs, clientRefs>>
        ELSE /\ inst' = [inst EXCEPT ![o].loader = type(o),
                                      ![o].client = primary_user(o)]
             /\ loaderRefs' = [loaderRefs EXCEPT ![type(o)] = @ \cup {o}]
             /\ clientRefs' = [clientRefs EXCEPT ![primary_user(o)] = @ \cup {o}]
             /\ last' = Outcome(o, "return", <<"debug: loaded">>, <<>>)
             /\ UNCHANGED db
  /\ UNCHANGED <<cache, nextObj, tasks, nextTask, sinceStart>>

\* PluginInstance.load()
Load(o) ==
  /\ o \in Created
  /\ LET r == inst[o].db_instance
     IN IF type(o) \notin LoaderIds
        THEN \* PluginLoader.find raised KeyError: self.loader is not assigned
             /\ db' = [db EXCEPT ![r].enabled = FALSE]
             /\ last' = Outcome(o, "return", <<"error: no loader">>, <<>>)
             /\ UNCHANGED <<inst, loaderRefs, clientRefs>>
        ELSE IF primary_user(o) \notin ClientUsers
        THEN \* Client.get returned None
             /\ inst' = [inst EXCEPT ![o].loader = type(o), ![o].client = "none"]
             /\ db' = [db EXCEPT ![r].enabled = FALSE]
             /\ last' = Outcome(o, "return", <<"error: no client">>, <<>>)
             /\ UNCHANGED <<loaderRefs, clientRefs>>
        ELSE /\ inst' = [inst EXCEPT ![o].loader = type(o),
                                      ![o].client = primary_user(o)]
             /\ loaderRefs' = [loaderRefs EXCEPT ![type(o)] = @ \cup {o}]
             /\ clientRefs' = [clientRefs EXCEPT ![primary_user(o)] = @ \cup {o}]
             /\ last' = Outcome(o, "return", <<"debug: loaded">>, <<>>)
             /\ UNCHANGED db
  /\ UNCHANGED <<cache, nextObj, tasks, nextTask, sinceStart>>

\* PluginInstance.delete()
Delete(o) ==
  /\ o \in Created
  /\ IF inst[o].loader = "unset"
     THEN \* self.loader: AttributeError
          /\ last' = Outcome(o, "raise", <<>>, <<>>)
          /\ UNCHANGED <<db, loaderRefs>>
     ELSE IF o \notin loaderRefs[inst[o].loader]
     THEN \* set.remove: KeyError
          /\ last' = Outcome(o, "raise", <<>>, <<>>)
          /\ UNCHANGED <<db, loaderRefs>>
     ELSE /\ loaderRefs' = [loaderRefs EXCEPT ![inst[o].loader] = @ \ {o}]
          /\ db' = [db EXCEPT ![inst[o].db_instance].persisted = FALSE]
          /\ last' = Outcome(o, "return", <<>>, <<>>)
  /\ UNCHANGED <<cache, inst, nextObj, clientRefs, tasks, nextTask, sinceStart>>

\* ------------------------------------------------------ property setters
\* PluginInstance.id setter
SetId(o, k) ==
  /\ o \in Created
  /\ k # id(o)
  /\ \A r \in Rows : db[r].persisted => db[r].id # k
  /\ db' = [db EXCEPT ![inst[o].db_instance].id = k]
  /\ last' = Outcome(o, "return", <<>>, <<>>)
  /\ UNCHANGED <<cache, inst, nextObj, loaderRefs, clientRefs, tasks, nextTask,
                 sinceStart>>

\* PluginInstance.enabled setter
SetEnabled(o, v) ==
  /\ o \in Created
  /\ v # enabled(o)
  /\ db' = [db EXCEPT ![inst[o].db_instance].enabled = v]
  /\ last' = Outcome(o, "return", <<>>, <<>>)
  /\ UNCHANGED <<cache, inst, nextObj, loaderRefs, clientRefs, tasks, nextTask,
                 sinceStart>>

\* PluginInstance.primary_user setter
SetPrimaryUser(o, u) ==
  /\ o \in Created
  /\ u # primary_user(o)
  /\ db' = [db EXCEPT ![inst[o].db_instance].primary_user = u]
  /\ last' = Outcome(o, "return", <<>>, <<>>)
  /\ UNCHANGED <<cache, inst, nextObj, loaderRefs, clientRefs, tasks, nextTask,
                 sinceStart>>

\* -------------------------------------------------- lifecycle controller
\* a start() that lost its `if self.running` check
StartGuardNoRunningCheck(o) ==
  IF ~enabled(o) THEN "warning: disabled" ELSE "go"

\* a start() that lost its `elif not self.enabled` check
StartGuardNoEnabledCheck(o) ==
  IF inst[o].running THEN "warning: already started" ELSE "go"

\* the two early returns at the head of start()
StartGuard(o) ==
  IF inst[o].running THEN "warning: already started"
  ELSE IF ~enabled(o) THEN "warning: disabled"
  ELSE "go"

\* start() up to `await self.loader.load()`
StartCall(o) ==
  /\ o \in Created
  /\ IF StartGuard(o) # "go"
     THEN /\ last' = Outcome(o, "return", <<StartGuard(o)>>, <<>>)
          /\ UNCHANGED <<tasks, nextTask>>
     ELSE IF inst[o].loader = "unset"
     THEN \* self.loader: AttributeError, outside any try
          /\ last' = Outcome(o, "raise", <<>>, <<>>)
          /\ UNCHANGED <<tasks, nextTask>>
     ELSE /\ nextTask <= MaxTasks
          /\ nextTask' = nextTask + 1
          /\ tasks' = [tasks EXCEPT ![nextTask] = [pc |-> "load", obj |-> o]]
          /\ last' = Outcome(o, "await", <<>>, <<>>)
  /\ UNCHANGED <<db, cache, inst, nextObj, loaderRefs, clientRefs, sinceStart>>

\* start(): self.plugin = cls(self.client.client, ...) and the call of its
\* start hook; inst1 is the instance table after the config assignment
Construct(t, o, inst1, ctor) ==
  /\ UNCHANGED <<db, cache, nextObj, loaderRefs, clientRefs, nextTask, sinceStart>>
  /\ IF inst1[o].client \in {"unset", "none"} \/ ctor = "raise"
     THEN \* self.client.client: AttributeError, or the constructor raised
          /\ inst' = inst1
          /\ tasks' = [tasks EXCEPT ![t] = DoneTask]
          /\ last' = Outcome(o, "raise", <<>>, <<>>)
     ELSE /\ inst' = [inst1 EXCEPT ![o].plugin = t]
          /\ tasks' = [tasks EXCEPT ![t].pc = "start_hook"]
          /\ last' = Outcome(o, "await", <<>>, <<>>)

\* start(): loader.load() returns or raises; cls.get_config_class()
StartLoaded(t, out, ctor) ==
  /\ tasks[t].pc = "load"
  /\ LET o == tasks[t].obj
     IN CASE out \in {"load raise", "get_config_class raise"} ->
               /\ tasks' = [tasks EXCEPT ![t] = DoneTask]
               /\ last' = Outcome(o, "raise", <<>>, <<>>)
               /\ UNCHANGED <<db, cache, inst, nextObj, loaderRefs, clientRefs,
                              nextTask, sinceStart>>
          [] out = "config class" ->
               /\ tasks' = [tasks EXCEPT ![t].pc = "read_file"]
               /\ last' = Outcome(o, "await", <<>>, <<>>)
               /\ UNCHANGED <<db, cache, inst, nextObj, loaderRefs, clientRefs,
                              nextTask, sinceStart>>
          [] out = "no config class" -> Construct(t, o, inst, ctor)

\* start(): loader.read_file("base-config.yaml") returns or raises; the
\* config object is built and assigned
StartReadBase(t, out, ctor) ==
  /\ tasks[t].pc = "read_file"
  /\ LET o == tasks[t].obj
     IN IF out = "raise"
        THEN /\ tasks' = [tasks EXCEPT ![t] = DoneTask]
             /\ last' = Outcome(o, "raise", <<>>, <<>>)
             /\ UNCHANGED <<db, cache, inst, nextObj, loaderRefs, clientRefs,
                            nextTask, sinceStart>>
        ELSE Construct(t, o, [inst EXCEPT ![o].config = t], ctor)

\* start(): the start hook returns or raises
StartHookDone(t, out) ==
  /\ tasks[t].pc = "start_hook"
  /\ tasks' = [tasks EXCEPT ![t] = DoneTask]
  /\ LET o == tasks[t].obj
     IN IF out = "raise"
        THEN /\ db' = [db EXCEPT ![inst[o].db_instance].enabled = FALSE]
             /\ last' = Outcome(o, "return", <<"exception: start">>, <<>>)
             /\ UNCHANGED <<inst, sinceStart>>
        ELSE /\ inst' = [inst EXCEPT ![o].running = TRUE]
             /\ UNCHANGED db
             /\ IF inst[o].client = "none"
                THEN \* self.client.id in the log line: AttributeError
                     /\ last' = Outcome(o, "raise", <<>>, <<>>)
                     /\ UNCHANGED sinceStart
                ELSE /\ last' = Outcome(o, "return", <<"info: started">>, <<>>)
                     /\ sinceStart' = [sinceStart EXCEPT ![o] = TRUE]
  /\ UNCHANGED <<cache, nextObj, loaderRefs, clientRefs, nextTask>>

\* a stop() that lost its `if not self.running` check
StopGuardNoCheck(o) == "go"

\* the early return at the head of stop()
StopGuard(o) == IF ~inst[o].running THEN "warning: not running" ELSE "go"

\* stop() up to `await self.plugin.stop()`
StopCall(o) ==
  /\ o \in Created
  /\ sinceStart' = [sinceStart EXCEPT ![o] = FALSE]
  /\ IF StopGuard(o) # "go"
     THEN /\ last' = Outcome(o, "return", <<StopGuard(o)>>, <<>>)
          /\ UNCHANGED <<inst, tasks, nextTask>>
     ELSE IF inst[o].plugin = PluginNone
     THEN \* None.stop: AttributeError inside the try, then self.plugin = None
          /\ inst' = [inst EXCEPT ![o].running = FALSE, ![o].plugin = PluginNone]
          /\ last' = Outcome(o, "return", <<"debug: stopping", "exception: stop">>, <<>>)
          /\ UNCHANGED <<tasks, nextTask>>
     ELSE /\ nextTask <= MaxTasks
          /\ nextTask' = nextTask + 1
          /\ inst' = [inst EXCEPT ![o].running = FALSE]
          /\ tasks' = [tasks EXCEPT ![nextTask] = [pc |-> "stop_hook", obj |-> o]]
          /\ last' = Outcome(o, "await", <<"debug: stopping">>, <<>>)
  /\ UNCHANGED <<db, cache, nextObj, loaderRefs, clientRefs>>

\* stop(): the stop hook returns or raises; self.plugin = None
StopHookDone(t, out) ==
  /\ tasks[t].pc = "stop_hook"
  /\ tasks' = [tasks EXCEPT ![t] = DoneTask]
  /\ inst' = [inst EXCEPT ![tasks[t].obj].plugin = PluginNone]
  /\ last' = Outcome(tasks[t].obj, "return",
                     IF out = "raise" THEN <<"exception: stop">> ELSE <<>>, <<>>)
  /\ UNCHANGED <<db, cache, nextObj, loaderRefs, clientRefs, nextTask, sinceStart>>

\* -------------------------------------------------------- specifications
LoadOutcomes == {"load raise", "get_config_class raise", "config class", "no config class"}

ReadOutcomes == {"ok", "notfound", "raise"}

CallOutcomes == {"ok", "raise"}

\* the process right after bootstrap, with the records in P persisted and
\* their plugin types drawn from T
Boot(P, T) ==
  /\ db \in [Rows -> [id : Ids, type : Types, enabled : {TRUE},
                      primary_user : {"@bot"}, persisted : BOOLEAN]]
  /\ \A r \in Rows : /\ db[r].id = r
                     /\ db[r].persisted <=> r \in P
                     /\ db[r].type \in (IF r \in P THEN T ELSE {"echo"})
  /\ cache = [k \in Ids |-> NoObj]
  /\ inst = [o \in Objs |-> Blank]
  /\ nextObj = 1
  /\ loaderRefs = [l \in LoaderIds |-> {}]
  /\ clientRefs = [u \in ClientUsers |-> {}]
  /\ tasks = [t \in Tasks |-> IdleTask]
  /\ nextTask = 1
  /\ last = Outcome(NoObj, "return", <<>>, <<>>)
  /\ sinceStart = [o \in Objs |-> FALSE]

\* one installed plugin instance, driven through its whole lifecycle
Init == Boot({1}, Types)

Next ==
  \/ \E k \in Ids : Get(k)
  \/ All
  \/ \E o \in Objs : Load(o)
  \/ \E o \in Objs : Delete(o)
  \/ \E o \in Objs, v \in BOOLEAN : SetEnabled(o, v)
  \/ \E o \in Objs, u \in Users : SetPrimaryUser(o, u)
  \/ \E o \in Objs : StartCall(o)
  \/ \E t \in Tasks, out \in LoadOutcomes, ctor \in CallOutcomes : StartLoaded(t, out, ctor)
  \/ \E t \in Tasks, out \in ReadOutcomes, ctor \in CallOutcomes : StartReadBase(t, out, ctor)
  \/ \E t \in Tasks, out \in CallOutcomes : StartHookDone(t, out)
  \/ \E o \in Objs : StopCall(o)
  \/ \E t \in Tasks, out \in CallOutcomes : StopHookDone(t, out)

Spec == Init /\ [][Next]_vars

\* two installed plugin instances; the registry, the binder and the id setter
InitRegistry == Boot({1, 2}, LoaderIds)

NextRegistry ==
  \/ \E k \in Ids : Get(k)
  \/ All
  \/ \E o \in Objs : Load(o)
  \/ \E o \in Objs : Delete(o)
  \/ \E o \in Objs, k \in Ids : SetId(o, k)

SpecRegistry == InitRegistry /\ [][NextRegistry]_vars

\* two installed plugin instances started and stopped side by side, with the
\* id setter; all but one of the coroutines are spent on guarded calls
InitPair == Boot({1, 2}, LoaderIds)

NextPair ==
  \/ \E k \in Ids : Get(k)
  \/ \E o \in Objs : Load(o)
  \/ \E o \in Objs, k \in Ids : SetId(o, k)
  \/ \E o \in Objs : nextTask < MaxTasks /\ StartCall(o)
  \/ \E t \in Tasks, out \in LoadOutcomes, ctor \in CallOutcomes : StartLoaded(t, out, ctor)
  \/ \E t \in Tasks, out \in ReadOutcomes, ctor \in CallOutcomes : StartReadBase(t, out, ctor)
  \/ \E t \in Tasks, out \in CallOutcomes : StartHookDone(t, out)
  \/ \E o \in Objs : nextTask < MaxTasks /\ StopCall(o)
  \/ \E t \in Tasks, out \in CallOutcomes : StopHookDone(t, out)

SpecPair == InitPair /\ [][NextPair]_vars

\* ----------------------------------------------------------------- claims
InFlight(o) ==
  {t \in Tasks : tasks[t].obj = o /\ tasks[t].pc \in {"load", "read_file", "start_hook", "stop_hook"}}

Live(o) == inst[o].plugin \notin {PluginUnset, PluginNone}

\* C1: whatever get(id) and all() calls are made, the calls that return an
\* instance for an id all return the same object, and no two PluginInstance
\* objects are ever constructed for one id: a cache entry once set is never
\* replaced, every lookup returns the cache entry of its id, and a newly
\* constructed object is never built under an id an earlier object was built
\* under.
C1_OneObjectPerId ==
  [][/\ \A k \in Ids : cache[k] # NoObj => cache'[k] = cache[k]
     /\ nextObj' # nextObj =>
          \A o \in nextObj..(nextObj' - 1) :
            \A p \in 1..(o - 1) : inst'[p].log # inst'[o].log
     /\ \A k \in Ids :
          (last'.self = NoObj /\ Get(k)) => last'.ret \in {<<>>, <<cache'[k]>>}
     /\ (last'.self = NoObj /\ All) =>
          \A n \in 1..Len(last'.ret) :
            \E k \in Ids : last'.ret[n] = cache'[k] /\ inst'[cache'[k]].log = k
    ]_vars

\* a lookup has returned the cached object of an id again, after the record
\* behind it was given another id
C1_Witness ==
  \E k \in Ids : /\ cache[k] # NoObj
                 /\ last.self = NoObj
                 /\ last.ret = <<cache[k]>>
                 /\ id(cache[k]) # k

\* C2: in every reachable state an instance with running = TRUE has a bound
\* loader, a bound client and a live plugin object.
C2_RunningImpliesBound ==
  \A o \in Created :
    inst[o].running => /\ inst[o].loader # "unset"
                       /\ inst[o].client \notin {"unset", "none"}
                       /\ Live(o)

\* C3: in every reachable state an instance with running = FALSE holds no
\* plugin object.
C3_StoppedImpliesNoPlugin ==
  \A o \in Created : ~inst[o].running => ~Live(o)

\* C4: at no time are two start()/stop() calls on one instance both past
\* the running guard and not yet completed.
C4_MutualExclusion ==
  \A o \in Created : Cardinality(InFlight(o)) <= 1

\* C5: while a stop hook of an instance has been invoked and has not yet
\* returned, the instance's running flag is FALSE.
C5_NotRunningDuringStopHook ==
  \A t \in Tasks : tasks[t].pc = "stop_hook" => ~inst[tasks[t].obj].running

\* C6: once a start() on an instance has completed successfully, a start()
\* called with no stop() call in between returns after writing exactly one
\* warning, and changes neither running, the plugin reference, any other
\* field of the instance, the records, nor the set of coroutines in flight
\* (no plugin is constructed, no start hook is invoked).
C6_SecondStartIsNoOp ==
  [][\A o \in Objs :
       (sinceStart[o] /\ StartCall(o)) =>
         /\ last' = Outcome(o, "return", <<"warning: already started">>, <<>>)
         /\ inst'[o].running
         /\ UNCHANGED <<db, cache, inst, loaderRefs, clientRefs, tasks, nextTask>>
    ]_vars

\* a start() has just been refused with the "already started" warning on an
\* instance whose last start() succeeded and that was not stopped since
C6_Witness ==
  \E o \in Created :
    /\ sinceStart[o]
    /\ last = Outcome(o, "return", <<"warning: already started">>, <<>>)

\* C7: start() on an instance whose enabled flag is FALSE returns after
\* writing one warning and nothing else: no coroutine is left in flight (the
\* plugin class is not loaded, no plugin is constructed, no hook is invoked)
\* and running, like every other field, is unchanged.
C7_DisabledStartIsNoOp ==
  [][\A o \in Objs :
       (o \in Created /\ ~enabled(o) /\ StartCall(o)) =>
         /\ last'.self = o
         /\ last'.res = "return"
         /\ last'.log \in {<<"warning: disabled">>, <<"warning: already started">>}
         /\ UNCHANGED <<db, cache, inst, loaderRefs, clientRefs, tasks, nextTask>>
    ]_vars

\* a start() has just been refused on a disabled instance
C7_Witness ==
  \E o \in Created :
    /\ ~enabled(o)
    /\ ~inst[o].running
    /\ last = Outcome(o, "return", <<"warning: disabled">>, <<>>)

\* C8: stop() on an instance that is not running returns after writing one
\* warning; running, enabled, the plugin reference, the config and both
\* reverse-reference sets are unchanged and no stop hook is invoked.
C8_StopWhenNotRunningIsNoOp ==
  [][\A o \in Objs :
       (o \in Created /\ ~inst[o].running /\ StopCall(o)) =>
         /\ last' = Outcome(o, "return", <<"warning: not running">>, <<>>)
         /\ UNCHANGED <<db, cache, inst, loaderRefs, clientRefs, tasks, nextTask>>
    ]_vars

\* a stop() has just been refused on an instance that was started and
\* stopped before, and is bound
C8_Witness ==
  \E o \in Created :
    /\ ~inst[o].running
    /\ inst[o].plugin = PluginNone
    /\ o \in loaderRefs[inst[o].loader]
    /\ last = Outcome(o, "return", <<"warning: not running">>, <<>>)

\* C9: when the start hook raises, start() returns normally and leaves the
\* instance with enabled = FALSE and running = FALSE, still in the registry
\* under its id.
C9_FailedStartLeavesStopped ==
  \A o \in Created :
    (last.self = o /\ last.log = <<"exception: start">>) =>
      /\ last.res = "return"
      /\ ~enabled(o)
      /\ ~inst[o].running
      /\ cache[id(o)] = o

\* C10: when the stop hook raises, stop() returns normally and leaves the
\* instance with running = FALSE and its plugin reference cleared.
C10_FailedStopLeavesStopped ==
  \A o \in Created :
    (last.self = o /\ last.log = <<"exception: stop">>) =>
      /\ last.res = "return"
      /\ ~inst[o].running
      /\ inst[o].plugin = PluginNone

\* C11: delete() on a bound instance (a member of both its loader's and its
\* client's reverse-reference set) leaves it a member of neither set and
\* removes its persisted record.
C11_DeleteDetaches ==
  [][\A o \in Objs :
       (/\ o \in Created
        /\ inst[o].loader # "unset"
        /\ inst[o].client \notin {"unset", "none"}
        /\ o \in loaderRefs[inst[o].loader]
        /\ o \in clientRefs[inst[o].client]
        /\ Delete(o)) =>
         /\ o \notin loaderRefs'[inst[o].loader]
         /\ o \notin clientRefs'[inst[o].client]
         /\ ~db'[inst[o].db_instance].persisted
    ]_vars

\* C12: whenever no persisted record exists for an id, get(id) returns
\* absent, also when the record was removed by delete() after the instance
\* had been constructed and cached.
C12_GetAbsentWithoutRecord ==
  [][\A k \in Ids :
       (QueryGet(db, k) = NoRow /\ last'.self = NoObj /\ Get(k)) =>
         last'.ret = <<>>
    ]_vars

\* C13: load() always returns normally. When the loader type is unknown or
\* there is no client for primary_user, it leaves enabled = FALSE and both
\* reverse-reference sets as they were; when both resolve, it leaves the
\* instance a member of its loader's and its client's reverse-reference set
\* and leaves enabled unchanged.
C13_LoadNeverRaises ==
  [][\A o \in Objs :
       (o \in Created /\ Load(o)) =>
         /\ last'.self = o
         /\ last'.res = "return"
         /\ IF type(o) \in LoaderIds /\ primary_user(o) \in ClientUsers
            THEN /\ o \in loaderRefs'[type(o)]
                 /\ o \in clientRefs'[primary_user(o)]
                 /\ UNCHANGED db
            ELSE /\ ~db'[inst[o].db_instance].enabled
                 /\ UNCHANGED <<loaderRefs, clientRefs>>
    ]_vars

\* a load() has failed for want of a client on an instance that was enabled
\* a moment before, and has returned
C13_Witness ==
  \E o \in Created :
    /\ last = Outcome(o, "return", <<"error: no client">>, <<>>)
    /\ ~enabled(o)
    /\ inst[o].client = "none"
    /\ \A u \in ClientUsers : o \notin clientRefs[u]

\* C14: no step of a start() or stop() propagates a fault to its caller:
\* whatever loader.load(), get_config_class(), the read of the base config,
\* the plugin constructor and the hooks do, the call does not end by raising.
C14_FaultsContained ==
  [][\A t \in Tasks, ctor \in CallOutcomes :
       /\ \A out \in LoadOutcomes : StartLoaded(t, out, ctor) => last'.res # "raise"
       /\ \A out \in ReadOutcomes : StartReadBase(t, out, ctor) => last'.res # "raise"
       /\ \A out \in CallOutcomes : StartHookDone(t, out) => last'.res # "raise"
       /\ \A out \in CallOutcomes : StopHookDone(t, out) => last'.res # "raise"
    ]_vars

\* C15: no step other than the enabled setter turns the enabled flag of a
\* record from FALSE to TRUE; a start() called on a disabled instance that is
\* not running starts nothing; and from the moment a load() or start()
\* failure has left an instance disabled and not running, running stays
\* FALSE for as long as enabled is FALSE.
C15_NoSelfReenable ==
  [][/\ \A r \in Rows :
          (~db[r].enabled /\ db'[r].enabled) =>
            \E o \in Created : inst[o].db_instance = r /\ SetEnabled(o, TRUE)
     /\ \A o \in Objs :
          (o \in Created /\ ~enabled(o) /\ ~inst[o].running /\ StartCall(o)) =>
            /\ last' = Outcome(o, "return", <<"warning: disabled">>, <<>>)
            /\ UNCHANGED <<db, inst, tasks, nextTask>>
     /\ \A o \in Objs :
          (/\ o \in Created
           /\ last.self = o
           /\ last.log \in {<<"exception: start">>, <<"error: no loader">>,
                            <<"error: no client">>}
           /\ ~enabled(o)
           /\ ~inst[o].running) =>
            ~inst'[o].running
    ]_vars

\* the step just taken is a step of a start() or a stop() on instance a
LifecycleStep(a) ==
  \/ StartCall(a)
  \/ StopCall(a)
  \/ \E t \in Tasks :
       /\ tasks[t].obj = a
       /\ \/ \E out \in LoadOutcomes, ctor \in CallOutcomes : StartLoaded(t, out, ctor)
          \/ \E out \in ReadOutcomes, ctor \in CallOutcomes : StartReadBase(t, out, ctor)
          \/ \E out \in CallOutcomes : StartHookDone(t, out)
          \/ \E out \in CallOutcomes : StopHookDone(t, out)

\* C16: every step of a start() or a stop() on an instance a leaves the
\* running flag, the enabled flag, the plugin reference, the config and the
\* reverse-reference membership of every other instance b unchanged.
C16_OtherInstancesUntouched ==
  [][\A a \in Objs :
       (a \in Created /\ LifecycleStep(a)) =>
         \A b \in Created \ {a} :
           /\ inst'[b].running = inst[b].running
           /\ inst'[b].plugin = inst[b].plugin
           /\ inst'[b].config = inst[b].config
           /\ db'[inst'[b].db_instance].enabled = db[inst[b].db_instance].enabled
           /\ \A l \in LoaderIds : b \in loaderRefs'[l] <=> b \in loaderRefs[l]
           /\ \A u \in ClientUsers : b \in clientRefs'[u] <=> b \in clientRefs[u]
    ]_vars

\* C17: a missing base-config.yaml is not a fault of start(): when the read
\* fails with not-found the call goes on to construct the plugin exactly as
\* after a successful read, and if the start hook then returns, running is
\* TRUE and enabled is as it was; when the plugin declares no config class
\* the base file is never read and the config handed to the plugin is absent.
C17_MissingBaseConfigIsNormal ==
  [][\A t \in Tasks, ctor \in CallOutcomes :
       /\ StartReadBase(t, "notfound", ctor) =>
            /\ StartReadBase(t, "ok", ctor)
            /\ UNCHANGED db
            /\ ctor = "ok" /\ inst[tasks[t].obj].client \notin {"unset", "none"} =>
                 tasks'[t].pc = "start_hook"
       /\ StartLoaded(t, "no config class", ctor) =>
            /\ tasks'[t].pc # "read_file"
            /\ tasks'[t].pc = "start_hook" =>
                 inst'[tasks[t].obj].config = ConfigNone
    ]_vars

\* C18: in every reachable state an instance with running = TRUE is a member
\* of its loader's and of its client's reverse-reference set.
C18_RunningImpliesReferenced ==
  \A o \in Created :
    inst[o].running =>
      /\ inst[o].loader # "unset"
      /\ o \in loaderRefs[inst[o].loader]
      /\ inst[o].client \notin {"unset", "none"}
      /\ o \in clientRefs[inst[o].client]

\* C19: delete() on any instance of the registry, loaded or not, returns
\* without raising and leaves the instance's record removed.
C19_DeleteNeverRaises ==
  [][\A o \in Objs :
       (o \in Created /\ Delete(o)) =>
         /\ last'.res = "return"
         /\ ~db'[inst[o].db_instance].persisted
    ]_vars

\* C20: in every reachable state each cache entry is keyed by the current id
\* of the instance it holds, and no persisted record has two PluginInstance
\* objects.
C20_CacheKeyedByCurrentId ==
  /\ \A k \in Ids : cache[k] # NoObj => id(cache[k]) = k
  /\ \A o, p \in Created :
       (inst[o].db_instance = inst[p].db_instance /\ db[inst[o].db_instance].persisted)
         => o = p
====
